---------------------------- MODULE Spec2Model ----------------------------
(***************************************************************************)
(* Model of the localization filters of robotics-rs:                       *)
(*   src/src/localization/particle_filter.rs                               *)
(*   src/src/localization/extended_kalman_filter.rs                        *)
(*   src/src/localization/bayesian_filter.rs                               *)
(*                                                                         *)
(* The filters are generic over the scalar type T: RealField and the       *)
(* dimensions S, Z, U.  The model instantiates S = Z = U = 1 and T = f32   *)
(* and T = f64.  The inputs of a call are written as exact rationals       *)
(* <<numerator, denominator>> and stand for the nearest value of T.  All   *)
(* the arithmetic of the code is computed in T's floating point (round to  *)
(* nearest, ties to even, with T's exponent range: overflow to infinity,   *)
(* gradual underflow, signed zeros and NaN): the resampling functions,     *)
(* gaussian_estimate, the particles and weights of the particle filters    *)
(* and the estimate of both Kalman filters.  The injected collaborators    *)
(* (motion and measurement models, the normal distribution) are stand-ins  *)
(* that compute in T as well.  Option                                      *)
(* values are sequences: <<>> is None and <<v>> is Some(v).  Indices are   *)
(* 0-based as in the source; sequence accesses add one.                    *)
(***************************************************************************)
EXTENDS Integers, Sequences, FiniteSets, TLC

VARIABLES
    self,   \* the object under use: one of the filter structs, or no object
            \* when the module-level functions are exercised
    pc,     \* position of the caller: "idle", "called", "returned"
    args,   \* the arguments of the pending (or last) call
    ret     \* what the last call did: results and the values it computed

vars == <<self, pc, args, ret>>

---------------------------------------------------------------------------
(* Bounds of the exploration *)

\* Largest particle list handed to the module-level functions.
MaxParticules == 3
\* The uniform generator yields k / RngDen for k in 0 .. RngDen-1.
RngDen == 4
\* Largest single weight handed to the resampling functions.
MaxWeight == 2
\* Poses (and particles) are 0 .. MaxPose.
MaxPose == 2
\* Longest measurement batch.
MaxBatch == 2
\* Draws handed directly to resample are k/2 for k in 0 .. 2*MaxDraw.
MaxDraw == 1

---------------------------------------------------------------------------
(* Option<T> *)

None == <<>>
Some(v) == <<v>>
IsSome(o) == Len(o) = 1
Unwrap(o) == o[1]

---------------------------------------------------------------------------
(* Exact rationals in lowest terms with positive denominator: the inputs   *)
(* of the calls and the values of the collaborators.                       *)

Abs(x) == IF x < 0 THEN -x ELSE x

RECURSIVE Gcd(_, _)
Gcd(a, b) == IF b = 0 THEN a ELSE Gcd(b, a % b)

Rat(n, d) ==
    LET g == Gcd(Abs(n), Abs(d))
        s == IF d < 0 THEN -1 ELSE 1
    IN  <<(s * n) \div g, (s * d) \div g>>

FromInt(i) == <<i, 1>>
Zero == FromInt(0)
One == FromInt(1)

\* rng.gen::<T>(): uniform in [0, 1)
RngVals == {Rat(k, RngDen) : k \in 0 .. RngDen - 1}

---------------------------------------------------------------------------
(* Results of a call: a value, or a panic that unwinds out of the call *)

Ok(v) == [status |-> "ok", value |-> v, why |-> ""]
Panic(why) == [status |-> "panic", value |-> <<>>, why |-> why]

\* All sequences over S of length n, and of length at most n.
SeqN(S, n) == [1 .. n -> S]
\* .collect(): the values of f, one after the other, as a sequence.
Collect(f) == SubSeq(f, 1, Len(f))
SeqUpTo(S, n) == UNION {SeqN(S, k) : k \in 0 .. n}

---------------------------------------------------------------------------
(* T: RealField, for T = f32 and T = f64 *)

\* Natural numbers of any size: the digits in base Base, lowest first, the
\* highest not zero (zero is the empty sequence).
Base == 8192
BaseBits == 13

RECURSIVE Trim(_)
Trim(a) ==
    IF a # <<>> /\ a[Len(a)] = 0 THEN Trim(SubSeq(a, 1, Len(a) - 1)) ELSE a

Digit(a, i) == IF i >= 1 /\ i <= Len(a) THEN a[i] ELSE 0

RECURSIVE Carry(_, _)
Carry(a, c) ==
    IF a = <<>>
    THEN IF c = 0 THEN <<>> ELSE <<c % Base>> \o Carry(<<>>, c \div Base)
    ELSE <<(Head(a) + c) % Base>> \o Carry(Tail(a), (Head(a) + c) \div Base)

BigOf(n) == Carry(<<>>, n)

BigAdd(a, b) ==
    Carry(Collect([i \in 1 .. (IF Len(a) > Len(b) THEN Len(a) ELSE Len(b)) |->
                     Digit(a, i) + Digit(b, i)]),
          0)

BigLess(a, b) ==
    IF Len(a) # Len(b) THEN Len(a) < Len(b)
    ELSE \E i \in 1 .. Len(a) :
            /\ a[i] < b[i]
            /\ \A j \in i + 1 .. Len(a) : a[j] = b[j]

\* a - b for a >= b
RECURSIVE Borrow(_, _, _)
Borrow(a, b, c) ==
    IF a = <<>> THEN <<>>
    ELSE IF Head(a) - Digit(b, 1) - c < 0
    THEN <<Head(a) - Digit(b, 1) - c + Base>>
         \o Borrow(Tail(a), IF b = <<>> THEN <<>> ELSE Tail(b), 1)
    ELSE <<Head(a) - Digit(b, 1) - c>>
         \o Borrow(Tail(a), IF b = <<>> THEN <<>> ELSE Tail(b), 0)

BigSub(a, b) == Trim(Borrow(a, b, 0))

RECURSIVE Column(_, _, _, _)
Column(a, b, k, i) ==
    IF i > Len(a) \/ i > k THEN 0
    ELSE a[i] * Digit(b, k + 1 - i) + Column(a, b, k, i + 1)

BigMul(a, b) ==
    IF a = <<>> \/ b = <<>> THEN <<>>
    ELSE Carry(Collect([k \in 1 .. Len(a) + Len(b) - 1 |->
                          Column(a, b, k, 1)]),
               0)

\* a * 2^s and the integer part of a / 2^s
BigShl(a, s) ==
    IF s = 0 \/ a = <<>> THEN a
    ELSE [i \in 1 .. s \div BaseBits |-> 0]
         \o Carry(Collect([i \in 1 .. Len(a) |-> a[i] * 2 ^ (s % BaseBits)]),
                  0)
BigShr(a, s) ==
    IF s = 0 THEN a
    ELSE IF s \div BaseBits >= Len(a) THEN <<>>
    ELSE Trim(Collect([i \in 1 .. Len(a) - s \div BaseBits |->
                 a[i + s \div BaseBits] \div 2 ^ (s % BaseBits)
                 + (Digit(a, i + s \div BaseBits + 1) % 2 ^ (s % BaseBits))
                   * (Base \div 2 ^ (s % BaseBits))]))

RECURSIVE Bits(_)
Bits(n) == IF n = 0 THEN 0 ELSE 1 + Bits(n \div 2)

\* The number of binary digits of a.
BigBits(a) ==
    IF a = <<>> THEN 0 ELSE BaseBits * (Len(a) - 1) + Bits(a[Len(a)])

\* The number of low binary digits of a # 0 that are zero.
RECURSIVE LowZeros(_)
LowZeros(n) == IF n % 2 = 1 THEN 0 ELSE 1 + LowZeros(n \div 2)
RECURSIVE BigLowZeros(_)
BigLowZeros(a) ==
    IF Head(a) = 0 THEN BaseBits + BigLowZeros(Tail(a))
    ELSE LowZeros(Head(a))

\* The largest digit q with q * b <= r, for r < Base * b and the highest
\* digit of b at least Base / 2: the quotient d of the two highest digits of
\* r by the highest of b, capped at Base - 1, is q, q + 1 or q + 2.
Fitting(r, b, d) ==
    IF ~BigLess(r, BigMul(b, BigOf(d))) THEN d
    ELSE IF ~BigLess(r, BigMul(b, BigOf(d - 1))) THEN d - 1
    ELSE d - 2
Capped(d) == IF d > Base - 1 THEN Base - 1 ELSE d
BigDivDigitOf(r, b) ==
    Fitting(r, b, Capped((Digit(r, Len(b) + 1) * Base + Digit(r, Len(b)))
                         \div b[Len(b)]))

\* The quotient of a by b # 0 and whether a remainder is left, one digit
\* of a at a time from digit i down; q is the quotient and r the remainder
\* of the digits above i.
RECURSIVE BigDivFrom(_, _, _, _, _)
BigDivNext(a, b, i, q, r, d) ==
    BigDivFrom(a, b, i - 1, <<d>> \o q, BigSub(r, BigMul(b, BigOf(d))))
BigDivWith(a, b, i, q, r) ==
    IF BigLess(r, b) THEN BigDivFrom(a, b, i - 1, <<0>> \o q, r)
    ELSE BigDivNext(a, b, i, q, r, BigDivDigitOf(r, b))
BigDivFrom(a, b, i, q, r) ==
    IF i = 0 THEN [q |-> Trim(q), inexact |-> r # <<>>]
    ELSE BigDivWith(a, b, i, q, Trim(<<a[i]>> \o r))

\* The same by a b of one digit d, r being a digit too.
RECURSIVE BigDivDigit(_, _, _, _, _)
BigDivDigit(a, d, i, q, r) ==
    IF i = 0 THEN [q |-> Trim(q), inexact |-> r # 0]
    ELSE BigDivDigit(a, d, i - 1, <<(r * Base + a[i]) \div d>> \o q,
                     (r * Base + a[i]) % d)

\* With more digits, a and b are first scaled by 2^s to make the highest
\* digit of b at least Base / 2.
BigDivOf(a, b) == BigDivFrom(a, b, Len(a), <<>>, <<>>)
BigDivBy(a, b, s) == BigDivOf(BigShl(a, s), BigShl(b, s))
BigDiv(a, b) ==
    IF Len(b) = 1 THEN BigDivDigit(a, b[1], Len(a), <<>>, 0)
    ELSE BigDivBy(a, b, BaseBits - Bits(b[Len(b)]))

\* A value of T: the number (-1)^neg * m * 2^e with m odd, a zero (m is
\* empty) of either sign, an infinity of either sign, or NaN.
Num(neg, m, e) == [k |-> "num", neg |-> neg, m |-> m, e |-> e]
FZero == Num(FALSE, <<>>, 0)
FOne == Num(FALSE, <<1>>, 0)
FInf(neg) == [k |-> "inf", neg |-> neg, m |-> <<>>, e |-> 0]
FNaN == [k |-> "nan", neg |-> FALSE, m |-> <<>>, e |-> 0]
SignedZero(neg) == Num(neg, <<>>, 0)
IsNaN(x) == x.k = "nan"
IsInf(x) == x.k = "inf"
\* x == T::zero(): true of both zeros
IsZero(x) == x.k = "num" /\ x.m = <<>>

\* The binary digits T keeps, the exponent of its smallest positive value
\* and the exponent its finite values stay below.
Precision(T) == IF T = "f32" THEN 24 ELSE 53
MinExp(T) == IF T = "f32" THEN -149 ELSE -1074
MaxExp(T) == IF T = "f32" THEN 128 ELSE 1024

\* (-1)^neg * m * 2^e for m with z low binary digits that are zero; above
\* the finite values of T it is the infinity.
Normal(neg, m, e, z) == Num(neg, BigShr(m, z), e + z)
Shifted(T, neg, m, e, z) ==
    IF BigBits(m) + e > MaxExp(T) THEN FInf(neg) ELSE Normal(neg, m, e, z)
Float(T, neg, m, e) ==
    IF m = <<>> THEN SignedZero(neg) ELSE Shifted(T, neg, m, e, BigLowZeros(m))

\* m + f to the nearest multiple of 2^s, ties to even, divided by 2^s, for
\* s >= 1 and 0 <= f < 1 (0 < f when inexact); h is the integer part of
\* m / 2^(s-1).
Nearest(m, s, h, inexact) ==
    BigShr(IF /\ Digit(h, 1) % 2 = 1
              /\ \/ inexact
                 \/ (Digit(h, 1) \div 2) % 2 = 1
                 \/ BigShl(h, s - 1) # m
           THEN BigAdd(h, <<1>>) ELSE h,
           1)

\* The value of T nearest to (-1)^neg * (m + f) * 2^e, ties to even, where
\* 0 < f < 1 when inexact and f = 0 otherwise; m has more digits than T
\* keeps when inexact.  s is the number of low digits of m that T does not
\* keep: those beyond its precision, or those below its smallest value.
Rounded(T, neg, m, e, s, inexact) ==
    IF s <= 0 THEN Float(T, neg, m, e)
    ELSE Float(T, neg, Nearest(m, s, BigShr(m, s - 1), inexact), e + s)
Dropped(T, m, e) ==
    IF BigBits(m) - Precision(T) > MinExp(T) - e
    THEN BigBits(m) - Precision(T) ELSE MinExp(T) - e
Round(T, neg, m, e, inexact) ==
    Rounded(T, neg, m, e, Dropped(T, m, e), inexact)

\* x + y without rounding for numbers x and y, as (-1)^neg * m * 2^e with
\* any m; a and b are the digits of x and y at the exponent e.
Signed(xneg, a, yneg, b, e) ==
    IF xneg = yneg THEN [neg |-> xneg, m |-> BigAdd(a, b), e |-> e]
    ELSE IF BigLess(a, b) THEN [neg |-> yneg, m |-> BigSub(b, a), e |-> e]
    ELSE [neg |-> xneg, m |-> BigSub(a, b), e |-> e]
Aligned(x, y, e) ==
    Signed(x.neg, BigShl(x.m, x.e - e), y.neg, BigShl(y.m, y.e - e), e)
FSum(x, y) ==
    IF x.m = <<>> THEN [neg |-> y.neg, m |-> y.m, e |-> y.e]
    ELSE IF y.m = <<>> THEN [neg |-> x.neg, m |-> x.m, e |-> x.e]
    ELSE Aligned(x, y, IF x.e < y.e THEN x.e ELSE y.e)

\* The value of T nearest to the sum s of two numbers that are not both
\* zero; a sum that cancels is +0.
Nearby(T, s) ==
    IF s.m = <<>> THEN FZero ELSE Round(T, s.neg, s.m, s.e, FALSE)

\* -x
FNeg(x) == IF IsNaN(x) THEN x ELSE [x EXCEPT !.neg = ~x.neg]

\* One past the position of the highest binary digit of the number x.
Top(x) == BigBits(x.m) + x.e

\* x + y for numbers with y below a quarter of the last digit T keeps of x:
\* x written with two digits more than T keeps, and y as a fraction f of
\* its last digit, added or taken off.
Widened(T, x, neg, m, e) ==
    IF x.neg = neg THEN Round(T, x.neg, m, e, TRUE)
    ELSE Round(T, x.neg, BigSub(m, <<1>>), e, TRUE)
Swamped(T, x, y) ==
    Widened(T, x, y.neg, BigShl(x.m, Precision(T) + 2 - BigBits(x.m)),
            Top(x) - Precision(T) - 2)

\* x + y
FAdd(T, x, y) ==
    IF IsNaN(x) \/ IsNaN(y) THEN FNaN
    ELSE IF IsInf(x) THEN (IF IsInf(y) /\ x.neg # y.neg THEN FNaN ELSE x)
    ELSE IF IsInf(y) THEN y
    ELSE IF IsZero(x) /\ IsZero(y) THEN SignedZero(x.neg /\ y.neg)
    ELSE IF IsZero(x) THEN y
    ELSE IF IsZero(y) THEN x
    ELSE IF Top(y) <= Top(x) - Precision(T) - 2 THEN Swamped(T, x, y)
    ELSE IF Top(x) <= Top(y) - Precision(T) - 2 THEN Swamped(T, y, x)
    ELSE Nearby(T, FSum(x, y))

\* x - y
FSub(T, x, y) == FAdd(T, x, FNeg(y))

\* x * y
FMul(T, x, y) ==
    IF IsNaN(x) \/ IsNaN(y) THEN FNaN
    ELSE IF IsInf(x) \/ IsInf(y)
    THEN (IF IsZero(x) \/ IsZero(y) THEN FNaN ELSE FInf(x.neg # y.neg))
    ELSE Round(T, x.neg # y.neg, BigMul(x.m, y.m), x.e + y.e, FALSE)

\* x / y for numbers x and y that are not zero, from the quotient d of
\* their m, the m of x scaled by 2^k.
Ratio(T, neg, d, e) == Round(T, neg, d.q, e, d.inexact)
Divided(T, x, y, k) ==
    Ratio(T, x.neg # y.neg, BigDiv(BigShl(x.m, k), y.m), x.e - y.e - k)
Quotient(T, x, y) == Divided(T, x, y, Precision(T) + 2 + BigBits(y.m))

\* x / y
FDiv(T, x, y) ==
    IF IsNaN(x) \/ IsNaN(y) THEN FNaN
    ELSE IF IsInf(x) THEN (IF IsInf(y) THEN FNaN ELSE FInf(x.neg # y.neg))
    ELSE IF IsInf(y) THEN SignedZero(x.neg # y.neg)
    ELSE IF IsZero(y)
    THEN (IF IsZero(x) THEN FNaN ELSE FInf(x.neg # y.neg))
    ELSE IF IsZero(x) THEN SignedZero(x.neg # y.neg)
    ELSE Quotient(T, x, y)

\* |x| < |y| for numbers that are not zero; e is the smaller exponent.
MagLessAt(x, y, e) == BigLess(BigShl(x.m, x.e - e), BigShl(y.m, y.e - e))
MagLess(x, y) ==
    IF Top(x) # Top(y) THEN Top(x) < Top(y)
    ELSE MagLessAt(x, y, IF x.e < y.e THEN x.e ELSE y.e)

\* x < y: false when one is NaN
FLt(x, y) ==
    IF IsNaN(x) \/ IsNaN(y) THEN FALSE
    ELSE IF IsInf(x) THEN x.neg /\ ~(IsInf(y) /\ y.neg)
    ELSE IF IsInf(y) THEN ~y.neg
    ELSE IF IsZero(x) THEN ~IsZero(y) /\ ~y.neg
    ELSE IF IsZero(y) THEN x.neg
    ELSE IF x.neg # y.neg THEN x.neg
    ELSE IF x.neg THEN MagLess(y, x)
    ELSE MagLess(x, y)

\* T::from_usize(n), and the value of T nearest to the rational v.
FromUsize(T, n) == Round(T, FALSE, BigOf(n), 0, FALSE)
FromRat(T, v) ==
    IF v[2] = 1 THEN Round(T, v[1] < 0, BigOf(Abs(v[1])), 0, FALSE)
    ELSE Quotient(T, Num(v[1] < 0, BigOf(Abs(v[1])), 0),
                  Num(FALSE, BigOf(v[2]), 0))

---------------------------------------------------------------------------
(* particle_filter.rs: resampling.  The weights, the outputs of the        *)
(* generator, the draws and total_weight are values of T.                  *)

\* The values of T that a sequence of rationals stands for.
Floats(T, xs) == Collect([i \in 1 .. Len(xs) |-> FromRat(T, xs[i])])

\* weights.iter().fold(T::zero(), |a, b| a + *b)
RECURSIVE Fold(_, _, _)
Fold(T, acc, xs) ==
    IF xs = <<>> THEN acc ELSE Fold(T, FAdd(T, acc, Head(xs)), Tail(xs))

\* weights.iter().scan(T::zero(), ...).collect()
CumWeight(T, weights) ==
    Collect([i \in 1 .. Len(weights) |->
               Fold(T, FZero, SubSeq(weights, 1, i))])

\* a.partial_cmp(b).unwrap() panics when a or b is NaN, and sorting two
\* draws or more compares every draw with another one.
SortPanics(draws) ==
    Len(draws) >= 2 /\ \E i \in 1 .. Len(draws) : IsNaN(draws[i])

\* draws.sort_unstable_by(|a, b| a.partial_cmp(b).unwrap()), when no
\* comparison panics.
RECURSIVE Insert(_, _)
Insert(x, sorted) ==
    IF sorted = <<>> THEN <<x>>
    ELSE IF ~FLt(Head(sorted), x) THEN <<x>> \o sorted
    ELSE <<Head(sorted)>> \o Insert(x, Tail(sorted))

RECURSIVE SortDraws(_)
SortDraws(draws) ==
    IF draws = <<>> THEN <<>> ELSE Insert(Head(draws), SortDraws(Tail(draws)))

\* Mutant of Advance: at the last index the loop is left without setting
\* cum_weight to total_weight.
RECURSIVE Advance_keeps_cum(_, _, _, _, _, _, _)
Advance_keeps_cum(T, index, cum_weight, draw, total_weight, n, weights) ==
    IF FLt(cum_weight, draw)
    THEN IF index = n - 1
         THEN [index |-> index, cum_weight |-> cum_weight]
         ELSE Advance_keeps_cum(T, index + 1,
                                FAdd(T, cum_weight, weights[index + 1]),
                                draw, total_weight, n, weights)
    ELSE [index |-> index, cum_weight |-> cum_weight]

\* The while loop of resample for one draw: from (index, cum_weight) to the
\* (index, cum_weight) at which the particle is emitted.
RECURSIVE Advance(_, _, _, _, _, _, _)
Advance(T, index, cum_weight, draw, total_weight, n, weights) ==
    IF FLt(cum_weight, draw)
    THEN IF index = n - 1
         THEN [index |-> index, cum_weight |-> total_weight]
         ELSE Advance(T, index + 1, FAdd(T, cum_weight, weights[index + 1]),
                      draw, total_weight, n, weights)
    ELSE [index |-> index, cum_weight |-> cum_weight]

\* The map of resample over i in 0 .. N-1: the (index, cum_weight) at each
\* emission; st is the one at which particle i is emitted.
RECURSIVE Sweep(_, _, _, _, _, _, _, _)
Emit(T, i, st, draws, total_weight, n, weights) ==
    <<st>> \o Sweep(T, i + 1, st.index, st.cum_weight, draws, total_weight,
                    n, weights)
Sweep(T, i, index, cum_weight, draws, total_weight, n, weights) ==
    IF i = n THEN <<>>
    ELSE Emit(T, i,
              Advance(T, index, cum_weight, draws[i + 1], total_weight, n,
                      weights),
              draws, total_weight, n, weights)

\* let mut index = 0; let mut cum_weight = draws[0]; on the sorted draws.
SweepFrom(T, sorted, total_weight, n, weights) ==
    Sweep(T, 0, 0, sorted[1], sorted, total_weight, n, weights)

\* The emissions of resample, before the particles are cloned.
SweepOf(T, draws, total_weight, n, weights) ==
    SweepFrom(T, SortDraws(draws), total_weight, n, weights)

\* particules[index].clone() for the first n emissions tr, collected.
Cloned(particules, tr, n) ==
    Ok(Collect([i \in 1 .. n |-> particules[tr[i].index + 1]]))

\* resample(draws, total_weight, particules, weights)
resample(T, draws, total_weight, particules, weights) ==
    IF SortPanics(draws)
    THEN Panic("called Option::unwrap() on a None value: partial_cmp")
    ELSE IF Len(draws) = 0
    THEN Panic("index out of bounds: draws[0]")
    ELSE Cloned(particules,
                SweepOf(T, draws, total_weight, Len(particules), weights),
                Len(particules))

\* The first particle of those at the indices hits, as Some(p), or None
\* when the loop falls through to unreachable!().
FirstOf(hits, particules) ==
    IF hits = {} THEN None
    ELSE Some(particules[CHOOSE i \in hits : \A j \in hits : i <= j])

\* The indices i with cum_weight[i] > rng_nb.
Above(rng_nb, cum_weight, n) == {i \in 1 .. n : FLt(rng_nb, cum_weight[i])}

\* What the closure of resampling returns for one generator output r.
ResamplingPick(T, r, weight_tot, cum_weight, particules) ==
    FirstOf(Above(FMul(T, r, weight_tot), cum_weight, Len(particules)),
            particules)

\* The closure of resampling mapped over 0 .. N-1.
Picks(T, rng, particules, cum_weight) ==
    Collect([k \in 1 .. Len(particules) |->
               ResamplingPick(T, rng[k], cum_weight[Len(cum_weight)],
                              cum_weight, particules)])

\* .collect(), unless one closure call entered unreachable!().
Collected(picks) ==
    IF \E k \in 1 .. Len(picks) : picks[k] = None
    THEN Panic("entered unreachable code")
    ELSE Ok(Collect([k \in 1 .. Len(picks) |-> Unwrap(picks[k])]))

\* resampling(particules, weights); rng are the outputs of the generator.
resampling(T, rng, particules, weights) ==
    IF Len(weights) = 0
    THEN Panic("called Option::unwrap() on a None value: cum_weight.last()")
    ELSE Collected(Picks(T, rng, particules, CumWeight(T, weights)))

\* The draws of the three variants built on resample, from the outputs of
\* the generator.
DrawsIID(T, rng, n, total_weight) ==
    Collect([i \in 1 .. n |-> FMul(T, rng[i], total_weight)])

DrawsStratified(T, rng, n, total_weight) ==
    Collect([i \in 1 .. n |->
               FMul(T, FDiv(T, FAdd(T, FromUsize(T, i - 1), rng[i]),
                            FromUsize(T, n)),
                    total_weight)])

DrawsSystematic(T, draw, n, total_weight) ==
    Collect([i \in 1 .. n |->
               FMul(T, FDiv(T, FAdd(T, FromUsize(T, i - 1), draw),
                            FromUsize(T, n)),
                    total_weight)])

\* resampling_sort(particules, weights), and its body after total_weight.
SortWith(T, rng, particules, weights, total_weight) ==
    resample(T, DrawsIID(T, rng, Len(particules), total_weight),
             total_weight, particules, weights)
resampling_sort(T, rng, particules, weights) ==
    SortWith(T, rng, particules, weights, Fold(T, FZero, weights))

\* resampling_stratified(particules, weights), likewise.
StratifiedWith(T, rng, particules, weights, total_weight) ==
    resample(T, DrawsStratified(T, rng, Len(particules), total_weight),
             total_weight, particules, weights)
resampling_stratified(T, rng, particules, weights) ==
    StratifiedWith(T, rng, particules, weights, Fold(T, FZero, weights))

\* resampling_systematic(particules, weights), likewise; draw is the one
\* output of the generator.
SystematicWith(T, draw, particules, weights, total_weight) ==
    resample(T, DrawsSystematic(T, draw, Len(particules), total_weight),
             total_weight, particules, weights)
resampling_systematic(T, draw, particules, weights) ==
    SystematicWith(T, draw, particules, weights, Fold(T, FZero, weights))

---------------------------------------------------------------------------
(* particle_filter.rs: gaussian_estimate *)

\* The fold of the particles from zero divided by T::from_usize(len).
Mean(T, particules) ==
    FDiv(T, Fold(T, FZero, particules), FromUsize(T, Len(particules)))

\* .map(|p| p - &x).map(|dx| &dx * dx.transpose())
Squares(T, particules, x) ==
    Collect([i \in 1 .. Len(particules) |->
               FMul(T, FSub(T, particules[i], x), FSub(T, particules[i], x))])

\* GaussianState { x, cov }, the fold of the squares divided by n.
GaussianOf(T, particules, x, n) ==
    Ok([x |-> x,
        cov |-> FDiv(T, Fold(T, FZero, Squares(T, particules, x)),
                     FromUsize(T, n))])

\* Mutant of gaussian_estimate: the covariance is divided by N - 1 (by 1 for
\* a single particle) in place of N.
gaussian_estimate_unbiased(T, particules) ==
    IF Len(particules) = 0
    THEN Panic("index out of bounds: particules[0]")
    ELSE GaussianOf(T, particules, Mean(T, particules),
                    IF Len(particules) > 1 THEN Len(particules) - 1 ELSE 1)

gaussian_estimate(T, particules) ==
    IF Len(particules) = 0
    THEN Panic("index out of bounds: particules[0]")
    ELSE GaussianOf(T, particules, Mean(T, particules), Len(particules))

---------------------------------------------------------------------------
(* The collaborators injected at construction (crate::models and          *)
(* crate::utils::mvn), for S = Z = U = 1, on values of T.                  *)

\* MotionModel::prediction: a linear motion; jacobian_wrt_state is its
\* derivative.
MotionPredictionT(T, x, u, dt) == FAdd(T, x, FMul(T, u, dt))
MotionJacobianWrtStateT(T, x, u, dt) == FOne
\* MeasurementModel::prediction: the state itself without a landmark, the
\* offset to the landmark with one; jacobian is its derivative.
MeasurementPredictionT(T, x, landmark) ==
    IF IsSome(landmark) THEN FSub(T, Unwrap(landmark), x) ELSE x
MeasurementJacobianT(T, x, landmark) ==
    IF IsSome(landmark) THEN FNeg(FOne) ELSE FOne
\* MultiVariateNormal::new(mean, cov) is Ok exactly for a positive-definite
\* covariance.
MvnNew(cov) == FLt(FZero, cov)
\* MultiVariateNormal::pdf for unit covariance, up to a constant factor: a
\* nonnegative value that shrinks with the error and is 0 (floating-point
\* underflow) for a far error; NaN for an error that is NaN.
MvnPdf(error) ==
    IF IsNaN(error) THEN FNaN
    ELSE IF IsZero(error) THEN Num(FALSE, <<1>>, 1)
    ELSE IF error = FOne \/ error = FNeg(FOne) THEN FOne
    ELSE FZero
\* The values MultiVariateNormal::sample and MotionModel::sample add.
NoiseVals == {FromInt(-1), Zero}

---------------------------------------------------------------------------
(* particle_filter.rs: GeneralParticleFilter.  self.particules, the        *)
(* weights and every value computed from them are values of T.             *)

Schemes == {"IID", "Stratified", "Systematic"}

\* What an update_estimate call did.  particules is the field after the
\* call; predicted is the field after the prediction phase; weights is
\* Some(weights) once the weights were all computed; resampled tells whether
\* a resampling function was called.
Outcome(particules, predicted, weights, resampled, result) ==
    [particules |-> particules, predicted |-> predicted, weights |-> weights,
     resampled |-> resampled, result |-> result]

\* An argument Option<T> written as a rational, as the Option of the value
\* of T it stands for.
FloatOption(T, o) == IF IsSome(o) THEN Some(FromRat(T, Unwrap(o))) ELSE None

\* Mutant of Predict: an absent control is taken as a unit control.
Predict_default_control(T, particules, u, dt, noise) ==
    IF IsSome(u)
    THEN Collect([i \in 1 .. Len(particules) |->
                    FAdd(T, MotionPredictionT(T, particules[i], Unwrap(u),
                                              dt),
                         noise[i])])
    ELSE Collect([i \in 1 .. Len(particules) |->
                    MotionPredictionT(T, particules[i], FOne, dt)])

\* The prediction phase: motion_model.prediction(p, &control, dt) +
\* mvn.sample() for each particle when a control is given, in T.
Predict(T, particules, u, dt, noise) ==
    IF IsSome(u)
    THEN Collect([i \in 1 .. Len(particules) |->
                    FAdd(T, MotionPredictionT(T, particules[i], Unwrap(u),
                                              dt),
                         noise[i])])
    ELSE particules

\* weights[i] *= pdf for one measurement and every particle, the pdf taken
\* at measurement - z_pred.
WeighOne(T, weights, particules, measurement, landmark) ==
    Collect([i \in 1 .. Len(particules) |->
               FMul(T, weights[i],
                    MvnPdf(FSub(T, measurement,
                                MeasurementPredictionT(T, particules[i],
                                                       landmark))))])

\* for measurement in measurements { ... }, from the weights so far.
RECURSIVE Weigh(_, _, _, _)
Weigh(T, weights, particules, measurements) ==
    IF measurements = <<>> THEN weights
    ELSE Weigh(T, WeighOne(T, weights, particules, Head(measurements), None),
               particules, Tail(measurements))

\* The match on self.resampling_scheme.
ResampleBy(T, scheme, rng, particules, weights) ==
    IF scheme = "IID" THEN resampling_sort(T, rng, particules, weights)
    ELSE IF scheme = "Stratified"
    THEN resampling_stratified(T, rng, particules, weights)
    ELSE resampling_systematic(T, rng[1], particules, weights)

\* self.particules = <the resampled particles>: what the call did once the
\* resampling function has returned res or panicked.
Replaced(predicted, weights, res) ==
    IF res.status = "ok"
    THEN Outcome(res.value, predicted, Some(weights), TRUE, Ok(<<>>))
    ELSE Outcome(predicted, predicted, Some(weights), TRUE, res)

\* vec![T::one(); n]
Ones(n) == [i \in 1 .. n |-> FOne]

\* The match on self.resampling_scheme on the weights computed; rng are the
\* outputs of the generator, written as rationals.
Weighted(s, predicted, weights, rng) ==
    Replaced(predicted, weights,
             ResampleBy(s.T, s.resampling_scheme, Floats(s.T, rng),
                        predicted, weights))

\* Mutant of Correct: absent measurements are taken as an empty batch, so
\* the particles are resampled with unit weights (the generator yielding 0).
Correct_none_as_empty(s, predicted, z, rng) ==
    IF ~IsSome(z)
    THEN Weighted(s, predicted, Ones(Len(predicted)),
                  [i \in 1 .. Len(predicted) |-> Zero])
    ELSE IF Unwrap(z) # <<>> /\ ~MvnNew(FromRat(s.T, s.q))
    THEN Outcome(predicted, predicted, None, FALSE,
                 Panic("called Result::unwrap() on an Err value: q"))
    ELSE Weighted(s, predicted,
                  Weigh(s.T, Ones(Len(predicted)), predicted,
                        Floats(s.T, Unwrap(z))),
                  rng)

\* The correction phase of GeneralParticleFilter::update_estimate on the
\* predicted particles; the measurements z are written as rationals.
Correct(s, predicted, z, rng) ==
    IF ~IsSome(z)
    THEN Outcome(predicted, predicted, None, FALSE, Ok(<<>>))
    ELSE IF Unwrap(z) # <<>> /\ ~MvnNew(FromRat(s.T, s.q))
    THEN Outcome(predicted, predicted, None, FALSE,
                 Panic("called Result::unwrap() on an Err value: q"))
    ELSE Weighted(s, predicted,
                  Weigh(s.T, Ones(Len(predicted)), predicted,
                        Floats(s.T, Unwrap(z))),
                  rng)

\* GeneralParticleFilter::update_estimate(&mut self, u, z, dt); noise are the
\* values of mvn.sample() and rng the outputs of the uniform generator.  The
\* arguments, r and q are values of T written as the rationals they are.
update_estimate(s, a, noise, rng) ==
    IF Len(s.particules) = 0
    THEN Outcome(s.particules, s.particules, None, FALSE,
                 Panic("index out of bounds: particules[0]"))
    ELSE IF ~MvnNew(FromRat(s.T, s.r))
    THEN Outcome(s.particules, s.particules, None, FALSE,
                 Panic("called Result::unwrap() on an Err value: r"))
    ELSE Correct(s,
                 Predict(s.T, s.particules, FloatOption(s.T, a.u),
                         FromRat(s.T, a.dt), Floats(s.T, noise)),
                 a.z, rng)

---------------------------------------------------------------------------
(* particle_filter.rs: GeneralParticleFilterKnownCorrespondences *)

\* .filter(|(id, _)| self.landmarks.contains_key(id))
RECURSIVE FilterKnown(_, _)
FilterKnown(landmarks, measurements) ==
    IF measurements = <<>> THEN <<>>
    ELSE IF Head(measurements).id \in DOMAIN landmarks
    THEN <<Head(measurements)>> \o FilterKnown(landmarks, Tail(measurements))
    ELSE FilterKnown(landmarks, Tail(measurements))

\* for (id, z) in <the known measurements> { ... }, from the weights so far;
\* the measurements and the landmarks are written as rationals.
RECURSIVE WeighKnown(_, _, _, _, _)
WeighKnown(T, weights, particules, landmarks, known) ==
    IF known = <<>> THEN weights
    ELSE WeighKnown(T,
                    WeighOne(T, weights, particules,
                             FromRat(T, Head(known).z),
                             Some(FromRat(T, landmarks[Head(known).id]))),
                    particules, landmarks, Tail(known))

\* resampling(&self.particules, &weights) on the weights computed.
WeightedKnown(s, predicted, weights, rng) ==
    Replaced(predicted, weights,
             resampling(s.T, Floats(s.T, rng), predicted, weights))

\* The correction phase of the known-correspondence update_estimate.
CorrectKnown(s, predicted, measurements, rng) ==
    IF ~IsSome(measurements)
    THEN Outcome(predicted, predicted, None, FALSE, Ok(<<>>))
    ELSE IF Unwrap(measurements) = <<>>
    THEN Outcome(predicted, predicted, None, FALSE,
                 Panic("index out of bounds: measurements[0]"))
    ELSE IF ~MvnNew(FromRat(s.T, s.q))
    THEN Outcome(predicted, predicted, None, FALSE,
                 Panic("called Result::unwrap() on an Err value: q"))
    ELSE WeightedKnown(s, predicted,
                       WeighKnown(s.T, Ones(Len(predicted)), predicted,
                                  s.landmarks,
                                  FilterKnown(s.landmarks,
                                              Unwrap(measurements))),
                       rng)

\* GeneralParticleFilterKnownCorrespondences::update_estimate(&mut self,
\* control, measurements, dt); noise are the values motion_model.sample adds
\* to the prediction.
update_estimate_known(s, a, noise, rng) ==
    CorrectKnown(s,
                 Predict(s.T, s.particules, FloatOption(s.T, a.control),
                         FromRat(s.T, a.dt), Floats(s.T, noise)),
                 a.measurements, rng)

---------------------------------------------------------------------------
(* extended_kalman_filter.rs *)

\* Mutant of TryInverse: a singular matrix is given the inverse zero.
TryInverse_of_singular(T, m) ==
    IF IsZero(m) THEN Some(FZero) ELSE Some(FDiv(T, FOne, m))

\* SMatrix::try_inverse for a 1x1 matrix: None when the determinant is zero
\* (determinant.is_zero(), true of both zeros), else T::one() / determinant.
TryInverse(T, m) == IF IsZero(m) THEN None ELSE Some(FDiv(T, FOne, m))

\* What an estimate call did: the value returned (or the panic), and the
\* innovation covariances s it computed, in order.
Estimated(result, innovations) ==
    [result |-> result, innovations |-> innovations]

\* One correction in T, from the state (x, p) it linearises at: Some(state)
\* with x_est and p_est, or None when s has no inverse.  The steps, each
\* from the values computed before it:
\*   x_est = x + kalman_gain * (z - z_pred),
\*   p_est = (identity - kalman_gain * H) * p
Corrected(T, x, p, z, z_pred, H, s, kalman_gain) ==
    [s |-> s,
     next |-> Some([x |-> FAdd(T, x, FMul(T, kalman_gain,
                                          FSub(T, z, z_pred))),
                    P |-> FMul(T, FSub(T, FOne, FMul(T, kalman_gain, H)),
                               p)])]
\*   kalman_gain = p * H^T * s.try_inverse().unwrap()
Gained(T, x, p, z, z_pred, H, s, inv) ==
    IF inv = None THEN [s |-> s, next |-> None]
    ELSE Corrected(T, x, p, z, z_pred, H, s,
                   FMul(T, FMul(T, p, H), Unwrap(inv)))
Innovated(T, x, p, z, z_pred, H, s) ==
    Gained(T, x, p, z, z_pred, H, s, TryInverse(T, s))
\*   s = H * p * H^T + Q
Linearised(T, x, p, z, z_pred, H, Q) ==
    Innovated(T, x, p, z, z_pred, H, FAdd(T, FMul(T, FMul(T, H, p), H), Q))
\*   z_pred and H from the measurement model
Correction(T, x, p, z, landmark, Q) ==
    Linearised(T, x, p, z, MeasurementPredictionT(T, x, landmark),
               MeasurementJacobianT(T, x, landmark), Q)

\* The prediction of both filters in T: the motion prediction x of the
\* estimate, and G * P * G^T + R.
Propagated(T, x, G, P, R) ==
    [x |-> x, P |-> FAdd(T, FMul(T, FMul(T, G, P), G), R)]
Prediction(T, R, a) ==
    Propagated(T,
               MotionPredictionT(T, FromRat(T, a.estimate.x),
                                 FromRat(T, a.u), FromRat(T, a.dt)),
               MotionJacobianWrtStateT(T, FromRat(T, a.estimate.x),
                                       FromRat(T, a.u), FromRat(T, a.dt)),
               FromRat(T, a.estimate.P), FromRat(T, R))

\* GaussianStateStatic { x: x_est, P: p_est } of the one correction c,
\* unless the unwrap of the inverse panicked.
Unwrapped(c) ==
    IF c.next = None
    THEN Estimated(Panic("called Option::unwrap() on a None value"), <<c.s>>)
    ELSE Estimated(Ok(Unwrap(c.next)), <<c.s>>)

\* The update of ExtendedKalmanFilter::estimate from the prediction pred.
Update(s, a, pred) ==
    Unwrapped(Correction(s.T, pred.x, pred.P, FromRat(s.T, a.z), None,
                         FromRat(s.T, s.Q)))

\* ExtendedKalmanFilter::estimate(&self, estimate, u, z, dt); the arguments
\* and the fields are values of T, written as the rationals they are, the
\* estimate returned is made of values of T.
estimate(s, a) == Update(s, a, Prediction(s.T, s.R, a))

RECURSIVE CorrectEach(_, _, _, _, _)

\* Mutant of Carried: p_est is not carried from one correction to the next,
\* every correction starting from the covariance of the prediction.
Carried_stale_covariance(s, p_est, known, innovations, c) ==
    IF c.next = None
    THEN Estimated(Panic("called Option::unwrap() on a None value"),
                   Append(innovations, c.s))
    ELSE CorrectEach(s, Unwrap(c.next).x, p_est, Tail(known),
                     Append(innovations, c.s))

\* The end of one pass of the loop, after the correction c of (x_est, p_est):
\* the unwrap of the inverse panics, or x_est and p_est are assigned and
\* the loop goes on.
Carried(s, p_est, known, innovations, c) ==
    IF c.next = None
    THEN Estimated(Panic("called Option::unwrap() on a None value"),
                   Append(innovations, c.s))
    ELSE CorrectEach(s, Unwrap(c.next).x, Unwrap(c.next).P, Tail(known),
                     Append(innovations, c.s))

\* The loop of the known-correspondence estimate over the measurements whose
\* identifier is in the table, from (x_est, p_est).
CorrectEach(s, x_est, p_est, known, innovations) ==
    IF known = <<>>
    THEN Estimated(Ok([x |-> x_est, P |-> p_est]), innovations)
    ELSE Carried(s, p_est, known, innovations,
                 Correction(s.T, x_est, p_est, FromRat(s.T, Head(known).z),
                            Some(FromRat(s.T, s.landmarks[Head(known).id])),
                            FromRat(s.T, s.Q)))

\* The loop of the known-correspondence estimate from the prediction pred.
UpdateKnown(s, a, pred) ==
    CorrectEach(s, pred.x, pred.P, FilterKnown(s.landmarks, a.z_vec), <<>>)

\* ExtendedKalmanFilterKnownCorrespondences::estimate(&self, estimate, u,
\* z_vec, dt)
estimate_known(s, a) == UpdateKnown(s, a, Prediction(s.T, s.R, a))

---------------------------------------------------------------------------
(* The inputs explored *)

PoseVals == {FromInt(k) : k \in 0 .. MaxPose}
\* Particles handed to gaussian_estimate: 1/10 is no value of T.
PointVals == PoseVals \cup {Rat(1, 10)}
WeightVals == {FromInt(k) : k \in 0 .. MaxWeight}
\* A weight two of which overflow T when added.
HugeWeight(T) == Num(FALSE, <<1>>, MaxExp(T) - 1)
\* The weights handed to the resampling functions, as values of T.
WeightsOf(T) == {FromRat(T, w) : w \in WeightVals} \cup {HugeWeight(T)}
\* The particles a particle filter holds, as values of T.
Poses(T) == {FromRat(T, p) : p \in PoseVals}
DrawVals == {Rat(k, 2) : k \in 0 .. 2 * MaxDraw}
ControlVals == {One}
MeasVals == {Zero, FromInt(2)}
DtVals == {One}
\* 1x1 covariances: Zero is not positive definite.
CovVals == {Zero, One}
\* The scalar types the filters and functions are instantiated with.
FloatTypes == {"f32", "f64"}
\* num_particules given to the particle filters' constructors.
FilterSizes == 0 .. 2
\* Identifiers carried by tagged measurements; 2 is in no landmark table.
MeasIds == {1, 2}
\* Landmark tables given to GeneralParticleFilterKnownCorrespondences::new.
LandmarkTables == {<<>>, [id \in {1} |-> FromInt(2)]}

Option(S) == {None} \cup {Some(v) : v \in S}
\* Tagged measurements; those of the identifier 2 carry one value only.
Tagged ==
    {m \in [id : MeasIds, z : MeasVals] : m.id = 1 \/ m.z = Zero}

\* n pairwise different particles.
Particles(n) == [i \in 1 .. n |-> FromInt(i - 1)]

ResamplingFns ==
    {"resampling", "resampling_sort", "resampling_stratified",
     "resampling_systematic"}

\* The calls of the module-level functions on n particles.
FunctionArgsOf(T, n) ==
      {[op |-> f, T |-> T, particules |-> Particles(n), weights |-> w] :
          f \in ResamplingFns, w \in SeqN(WeightsOf(T), n)}
      \cup
      {[op |-> "resample", T |-> T, particules |-> Particles(n),
        weights |-> w, total_weight |-> Fold(T, FZero, w), draws |-> d] :
          w \in SeqN(WeightsOf(T), n), d \in SeqN(DrawVals, n)}
      \cup
      {[op |-> "gaussian_estimate", T |-> T, particules |-> ps] :
          ps \in SeqN(PointVals, n)}
FunctionArgs(n) == UNION {FunctionArgsOf(T, n) : T \in FloatTypes}

UpdateArgs ==
    {[op |-> "update_estimate", u |-> u, z |-> z, dt |-> dt] :
        u \in Option(ControlVals), z \in Option(SeqUpTo(MeasVals, MaxBatch)),
        dt \in DtVals}
    \cup {[op |-> "gaussian_estimate"]}

UpdateKnownArgs ==
    {[op |-> "update_estimate", control |-> u, measurements |-> z,
      dt |-> dt] :
        u \in Option(ControlVals), z \in Option(SeqUpTo(Tagged, MaxBatch)),
        dt \in DtVals}
    \cup {[op |-> "gaussian_estimate"]}

Estimates == {[x |-> x, P |-> P] : x \in {Zero, One}, P \in CovVals}

EstimateArgs ==
    {[op |-> "estimate", estimate |-> e, u |-> u, z |-> z, dt |-> dt] :
        e \in Estimates, u \in {Zero, One}, z \in MeasVals, dt \in DtVals}

EstimateKnownArgs ==
    {[op |-> "estimate", estimate |-> e, u |-> u, z_vec |-> z, dt |-> dt] :
        e \in Estimates, u \in {Zero, One}, z \in SeqUpTo(Tagged, MaxBatch),
        dt \in DtVals}

\* The calls of a filter object.
ArgsFor(s) ==
    IF s.type = "GeneralParticleFilter" THEN UpdateArgs
    ELSE IF s.type = "GeneralParticleFilterKnownCorrespondences"
    THEN UpdateKnownArgs
    ELSE IF s.type = "ExtendedKalmanFilter" THEN EstimateArgs
    ELSE EstimateKnownArgs

NoArgs == [op |-> "none"]
NoRet == [op |-> "none"]

---------------------------------------------------------------------------
(* Construction *)

\* No object: the module-level functions of particle_filter.rs.
Functions == {[type |-> "functions"]}

\* GeneralParticleFilter::new: MultiVariateNormal::new(&initial_state.x,
\* &r).unwrap() admits only a positive-definite r; the particles are
\* num_particules samples, values of T.  num_particules is kept to name the
\* argument.
NewGeneralParticleFilter ==
    UNION {
      {[type |-> "GeneralParticleFilter", T |-> tn[1], r |-> r, q |-> q,
        particules |-> ps, resampling_scheme |-> sc,
        num_particules |-> tn[2]] :
          r \in {c \in CovVals : MvnNew(FromRat(tn[1], c))}, q \in CovVals,
          sc \in Schemes, ps \in SeqN(Poses(tn[1]), tn[2])}
      : tn \in FloatTypes \X FilterSizes}

\* GeneralParticleFilterKnownCorrespondences::new: initial_noise passes the
\* same unwrap and is not kept.
NewGeneralParticleFilterKnownCorrespondences ==
    UNION {
      {[type |-> "GeneralParticleFilterKnownCorrespondences", T |-> tn[1],
        q |-> q, landmarks |-> lm, particules |-> ps,
        num_particules |-> tn[2]] :
          q \in CovVals, lm \in LandmarkTables,
          ps \in SeqN(Poses(tn[1]), tn[2])}
      : tn \in FloatTypes \X FilterSizes}

\* ExtendedKalmanFilter::new
NewExtendedKalmanFilter ==
    {[type |-> "ExtendedKalmanFilter", T |-> T, R |-> R, Q |-> Q] :
        T \in FloatTypes, R \in CovVals, Q \in CovVals}

\* Mutant of ExtendedKalmanFilterKnownCorrespondences::new: the constructor
\* is given the landmark table and stores it.
NewExtendedKalmanFilterKnownCorrespondences_with_table ==
    {[type |-> "ExtendedKalmanFilterKnownCorrespondences", T |-> T, R |-> R,
      Q |-> Q, landmarks |-> t] :
        T \in FloatTypes, R \in CovVals, Q \in CovVals, t \in LandmarkTables}

\* ExtendedKalmanFilterKnownCorrespondences::new: landmarks: HashMap::new()
NewExtendedKalmanFilterKnownCorrespondences ==
    {[type |-> "ExtendedKalmanFilterKnownCorrespondences", T |-> T, R |-> R,
      Q |-> Q, landmarks |-> <<>>] :
        T \in FloatTypes, R \in CovVals, Q \in CovVals}

ParticleFilters ==
    {"GeneralParticleFilter", "GeneralParticleFilterKnownCorrespondences"}

Init ==
    /\ self \in Functions
                \cup NewGeneralParticleFilter
                \cup NewGeneralParticleFilterKnownCorrespondences
                \cup NewExtendedKalmanFilter
                \cup NewExtendedKalmanFilterKnownCorrespondences
    /\ pc = "idle"
    /\ args = NoArgs
    /\ ret = NoRet

---------------------------------------------------------------------------
(* The caller *)

\* The caller invokes an operation of the object with some arguments.
Call ==
    /\ pc = "idle"
    /\ IF self.type = "functions"
       THEN \E n \in 0 .. MaxParticules : \E a \in FunctionArgs(n) : args' = a
       ELSE \E a \in ArgsFor(self) : args' = a
    /\ pc' = "called"
    /\ UNCHANGED <<self, ret>>

\* The caller takes the result (or catches the panic) and goes on.
Return ==
    /\ pc = "returned"
    /\ pc' = "idle"
    /\ args' = NoArgs
    /\ ret' = NoRet
    /\ UNCHANGED self

---------------------------------------------------------------------------
(* The module-level functions *)

Returned(r) ==
    /\ ret' = r
    /\ pc' = "returned"
    /\ UNCHANGED <<self, args>>

\* The draws each function derives from the outputs rng of the generator.
DrawsFrom(T, op, rng, n, total_weight) ==
    IF op = "resampling_stratified"
    THEN DrawsStratified(T, rng, n, total_weight)
    ELSE IF op = "resampling_systematic"
    THEN DrawsSystematic(T, rng[1], n, total_weight)
    ELSE DrawsIID(T, rng, n, total_weight)
DrawsOf(T, op, rng, n, weights) ==
    DrawsFrom(T, op, Floats(T, rng), n, Fold(T, FZero, weights))

\* A resampling function returns: the generator's outputs, the draws made
\* of them and the result are kept.
Resampled(op, rng, result) ==
    Returned([op |-> op, rng |-> rng,
              draws |-> DrawsOf(args.T, op, rng, Len(args.particules),
                                args.weights),
              result |-> result])

Resampling ==
    /\ pc = "called" /\ self.type = "functions" /\ args.op = "resampling"
    /\ \E rng \in SeqN(RngVals, Len(args.particules)) :
         Resampled("resampling", rng,
                   resampling(args.T, Floats(args.T, rng), args.particules,
                              args.weights))

ResamplingSort ==
    /\ pc = "called" /\ self.type = "functions"
    /\ args.op = "resampling_sort"
    /\ \E rng \in SeqN(RngVals, Len(args.particules)) :
         Resampled("resampling_sort", rng,
                   resampling_sort(args.T, Floats(args.T, rng),
                                   args.particules, args.weights))

ResamplingStratified ==
    /\ pc = "called" /\ self.type = "functions"
    /\ args.op = "resampling_stratified"
    /\ \E rng \in SeqN(RngVals, Len(args.particules)) :
         Resampled("resampling_stratified", rng,
                   resampling_stratified(args.T, Floats(args.T, rng),
                                         args.particules, args.weights))

ResamplingSystematic ==
    /\ pc = "called" /\ self.type = "functions"
    /\ args.op = "resampling_systematic"
    /\ \E draw \in RngVals :
         Resampled("resampling_systematic", <<draw>>,
                   resampling_systematic(args.T, FromRat(args.T, draw),
                                         args.particules, args.weights))

Resample ==
    /\ pc = "called" /\ self.type = "functions" /\ args.op = "resample"
    /\ Returned([op |-> "resample", rng |-> <<>>,
                 draws |-> Floats(args.T, args.draws),
                 result |-> resample(args.T, Floats(args.T, args.draws),
                                     args.total_weight,
                                     args.particules, args.weights)])

\* gaussian_estimate(&self.particules) of either particle filter, or the
\* module-level function on a given list; particules are values of T.
GaussianEstimateOf(T, particules) ==
    [op |-> "gaussian_estimate", T |-> T, particules |-> particules,
     result |-> gaussian_estimate(T, particules)]
GaussianEstimate ==
    /\ pc = "called" /\ args.op = "gaussian_estimate"
    /\ Returned(GaussianEstimateOf(
                    IF self.type = "functions" THEN args.T ELSE self.T,
                    IF self.type = "functions"
                    THEN Floats(args.T, args.particules)
                    ELSE self.particules))

---------------------------------------------------------------------------
(* The particle filters *)

\* The draws of the generators one update_estimate call consumes.
NoiseFor(u, n) == IF IsSome(u) THEN SeqN(NoiseVals, n) ELSE {<<>>}
RngFor(z, scheme, n) ==
    IF ~IsSome(z) THEN {<<>>}
    ELSE IF scheme = "Systematic" THEN SeqN(RngVals, 1)
    ELSE SeqN(RngVals, n)

\* The call ends: the particles are replaced and what the call did is kept.
Updated(o) ==
    /\ \A i \in 1 .. Len(o.predicted) : o.predicted[i] \in Poses(self.T)
    /\ self' = [self EXCEPT !.particules = o.particules]
    /\ ret' = [op |-> "update_estimate", before |-> self.particules,
               predicted |-> o.predicted, weights |-> o.weights,
               resampled |-> o.resampled, result |-> o.result]
    /\ pc' = "returned"
    /\ UNCHANGED args

\* ParticleFilter::particles_mut (&mut Vec) and the pub field particules:
\* between two calls the caller changes the list (clear, push, pop, assign)
\* into any other list of poses.
ParticlesMut ==
    /\ pc = "idle" /\ self.type \in ParticleFilters
    /\ \E n \in FilterSizes : \E ps \in SeqN(Poses(self.T), n) :
          /\ ps # self.particules
          /\ self' = [self EXCEPT !.particules = ps]
    /\ UNCHANGED <<pc, args, ret>>

UpdateEstimate ==
    /\ pc = "called" /\ self.type = "GeneralParticleFilter"
    /\ args.op = "update_estimate"
    /\ \E noise \in NoiseFor(args.u, Len(self.particules)) :
         \E rng \in RngFor(args.z, self.resampling_scheme,
                           Len(self.particules)) :
            Updated(update_estimate(self, args, noise, rng))

UpdateEstimateKnown ==
    /\ pc = "called"
    /\ self.type = "GeneralParticleFilterKnownCorrespondences"
    /\ args.op = "update_estimate"
    /\ \E noise \in NoiseFor(args.control, Len(self.particules)) :
         \E rng \in RngFor(args.measurements, "IID", Len(self.particules)) :
            Updated(update_estimate_known(self, args, noise, rng))

---------------------------------------------------------------------------
(* The Kalman filters *)

\* The call ends: the estimate returned (or the panic) and the innovation
\* covariances it computed are kept.
EstimateReturned(e) ==
    Returned([op |-> "estimate", result |-> e.result,
              innovations |-> e.innovations])

Estimate ==
    /\ pc = "called" /\ self.type = "ExtendedKalmanFilter"
    /\ EstimateReturned(estimate(self, args))

EstimateKnown ==
    /\ pc = "called"
    /\ self.type = "ExtendedKalmanFilterKnownCorrespondences"
    /\ EstimateReturned(estimate_known(self, args))

---------------------------------------------------------------------------

Next ==
    \/ Call
    \/ Return
    \/ Resampling
    \/ ResamplingSort
    \/ ResamplingStratified
    \/ ResamplingSystematic
    \/ Resample
    \/ GaussianEstimate
    \/ ParticlesMut
    \/ UpdateEstimate
    \/ UpdateEstimateKnown
    \/ Estimate
    \/ EstimateKnown

Spec == Init /\ [][Next]_vars

---------------------------------------------------------------------------
(* Properties *)

SweepFns ==
    {"resampling_sort", "resampling_stratified", "resampling_systematic"}

\* A resampling function has returned (or panicked) on n >= 1 particles.
ResamplingReturned(fns) ==
    pc = "returned" /\ ret.op \in fns /\ Len(args.particules) >= 1

\* An update_estimate call of a particle filter has returned (or panicked).
UpdateReturned ==
    pc = "returned" /\ self.type \in ParticleFilters
    /\ ret.op = "update_estimate"

\* The control and the measurements of the update_estimate call.
ControlOf(a) ==
    IF self.type = "GeneralParticleFilter" THEN a.u ELSE a.control
MeasurementsOf(a) ==
    IF self.type = "GeneralParticleFilter" THEN a.z ELSE a.measurements

\* All the weight is on one particle; that particle's position.
Concentrated(weights) ==
    \E k \in 1 .. Len(weights) :
        /\ ~IsZero(weights[k])
        /\ \A j \in 1 .. Len(weights) : j # k => IsZero(weights[j])
Heavy(weights) == CHOOSE k \in 1 .. Len(weights) : ~IsZero(weights[k])

\* n copies of x.
Copies(n, x) == [i \in 1 .. n |-> x]

\* seq without its j-th element.
RemoveAt(seq, j) == SubSeq(seq, 1, j - 1) \o SubSeq(seq, j + 1, Len(seq))

\* Inverse-CDF selection: the first position whose cumulative weight is not
\* below d.
InverseCdf(T, d, weights) ==
    LET cum_weight == CumWeight(T, weights)
    IN  CHOOSE k \in 1 .. Len(weights) :
            /\ ~FLt(cum_weight[k], d)
            /\ \A j \in 1 .. k - 1 : FLt(cum_weight[j], d)

\* The total weight of the resampling call, as its fold computes it.
TotalWeight == Fold(args.T, FZero, args.weights)

RECURSIVE SumInt(_)
SumInt(xs) == IF xs = <<>> THEN 0 ELSE Head(xs) + SumInt(Tail(xs))

\* C1: when all the weight is on a single particle, every resampling scheme
\* (resampling, resampling_sort, resampling_stratified,
\* resampling_systematic) returns N copies of that particle, whatever the
\* generator yields.
C1_ConcentratedWeightGivesCopies ==
    (ResamplingReturned(ResamplingFns) /\ Concentrated(args.weights)) =>
        /\ ret.result.status = "ok"
        /\ ret.result.value =
             Copies(Len(args.particules),
                    args.particules[Heavy(args.weights)])

\* C2: every resampling variant returns exactly as many particles
\* as it is given, for every non-empty particle list and every weight vector
\* of the same length, and update_estimate leaves a particle filter with as
\* many particles as it had, so that a sequence of update_estimate calls
\* keeps the num_particules particles of the construction.
C2_LengthForEveryWeightVector ==
    /\ ResamplingReturned(ResamplingFns) =>
         /\ ret.result.status = "ok"
         /\ Len(ret.result.value) = Len(args.particules)
    /\ UpdateReturned => Len(self.particules) = Len(ret.before)

\* C3: in the known-correspondence filters, a batch with a measurement whose
\* identifier is not in the landmark table has the same outcome as the batch
\* without that measurement: the same weights, resampling and failure or
\* success in the particle filter (one that holds particles), the same
\* estimate in the EKF.
C3_UnknownIdSameAsOmitted ==
    /\ ( /\ UpdateReturned
         /\ self.type = "GeneralParticleFilterKnownCorrespondences"
         /\ IsSome(args.measurements) /\ Len(ret.predicted) >= 1 ) =>
         \A j \in 1 .. Len(Unwrap(args.measurements)) :
            Unwrap(args.measurements)[j].id \notin DOMAIN self.landmarks =>
              \A rng \in SeqN(RngVals, Len(ret.predicted)) :
                 LET o == CorrectKnown(self, ret.predicted,
                            Some(RemoveAt(Unwrap(args.measurements), j)), rng)
                 IN  /\ o.weights = ret.weights
                     /\ o.resampled = ret.resampled
                     /\ o.result.status = ret.result.status
    /\ ( /\ pc = "returned"
         /\ self.type = "ExtendedKalmanFilterKnownCorrespondences" ) =>
         \A j \in 1 .. Len(args.z_vec) :
            args.z_vec[j].id \notin DOMAIN self.landmarks =>
              estimate_known(self,
                  [args EXCEPT !.z_vec = RemoveAt(args.z_vec, j)]).result
                = ret.result

\* C4: update_estimate with control = None performs no prediction: after
\* the prediction phase every particle is the value it was before the call,
\* at the same position.
C4_NoControlNoPrediction ==
    (UpdateReturned /\ ControlOf(args) = None) => ret.predicted = ret.before

\* C4 witness: a call without control and with measurements has resampled
\* two different particles.
C4_Witness ==
    /\ UpdateReturned /\ ControlOf(args) = None
    /\ ret.resampled /\ ret.result.status = "ok"
    /\ Len(ret.before) = 2 /\ ret.before[1] # ret.before[2]

\* C5: update_estimate with measurements = None computes no weights and
\* does not resample: the particles after the call are those of the
\* prediction phase, and the unchanged collection when control is None too.
C5_NoMeasurementsNoCorrection ==
    (UpdateReturned /\ MeasurementsOf(args) = None) =>
        /\ ret.weights = None
        /\ ~ret.resampled
        /\ self.particules = ret.predicted
        /\ ControlOf(args) = None => self.particules = ret.before

\* C5 witness: a call with a control and without measurements has moved two
\* particles.
C5_Witness ==
    /\ UpdateReturned /\ MeasurementsOf(args) = None
    /\ IsSome(ControlOf(args)) /\ ret.result.status = "ok"
    /\ Len(ret.before) = 2 /\ ret.predicted # ret.before

\* A call was rejected with an explicit error: it neither returned a value
\* nor faulted on an index out of range.
Rejected(result) ==
    /\ result.status # "ok"
    /\ result.why \notin {"index out of bounds: draws[0]",
                          "index out of bounds: particules[0]",
                          "index out of bounds: measurements[0]"}

\* C6: resampling an empty particle set, or with weights that sum to zero,
\* is rejected with an explicit error, in every resampling variant and in
\* the update_estimate calls that reach resampling.
C6_DegenerateResamplingRejected ==
    /\ ( /\ pc = "returned" /\ ret.op \in ResamplingFns
         /\ \/ args.particules = <<>>
            \/ IsZero(TotalWeight) ) =>
         Rejected(ret.result)
    /\ ( /\ UpdateReturned /\ ret.resampled
         /\ \/ ret.predicted = <<>>
            \/ IsZero(Fold(self.T, FZero, Unwrap(ret.weights))) ) =>
         Rejected(ret.result)

\* C7: when the innovation covariance s is singular in a correction of
\* either EKF, the call panics, returns no estimate, and leaves the prior
\* estimate it was given (and the filter) as they were.
C7_SingularInnovationPanics ==
    /\ [](( /\ pc = "returned" /\ ret.op = "estimate"
            /\ \E i \in 1 .. Len(ret.innovations) :
                  IsZero(ret.innovations[i]) ) =>
            /\ ret.result.status = "panic"
            /\ ret.result.value = <<>>)
    /\ [][(pc = "called" /\ args.op = "estimate") =>
            (args' = args /\ self' = self)]_vars

\* C7 witness: an estimate call has met a singular innovation covariance.
C7_Witness ==
    /\ pc = "returned" /\ ret.op = "estimate"
    /\ ret.innovations = <<FZero>>

GaussianEstimateReturned ==
    /\ pc = "returned" /\ ret.op = "gaussian_estimate"
    /\ Len(ret.particules) >= 1

\* The particles of the last gaussian_estimate call, and whether they are
\* all the same point.
EstimatedParticles == ret.particules
SamePoint == \A i \in 1 .. Len(ret.particules) :
                 EstimatedParticles[i] = EstimatedParticles[1]

\* The number (-1)^neg * m * 2^e, whether T holds it or not.
Exact(neg, m, e) ==
    IF m = <<>> THEN FZero ELSE Normal(neg, m, e, BigLowZeros(m))

\* n times the number p, without rounding.
Times(n, p) == Exact(p.neg, BigMul(p.m, BigOf(n)), p.e)

\* C8 (as stated): gaussian_estimate returns the mean and the divide-by-N
\* covariance of the particles; for N >= 1 particles at the same point the
\* mean is that point and the covariance is zero.
C8_SamePointGivesThatPoint ==
    (GaussianEstimateReturned /\ SamePoint) =>
        /\ ret.result.status = "ok"
        /\ ret.result.value.x = EstimatedParticles[1]
        /\ IsZero(ret.result.value.cov)

\* C8 (amended): gaussian_estimate returns the mean and the divide-by-N
\* covariance of the particles as T computes them: each sum folded from zero
\* in list order and then divided by N, every operation rounded; for
\* particles of integer coordinates whose sum is a value of T (handed to
\* the module-level function) the mean is the nearest value of T to
\* sum / N.  For N >= 1 particles at the same
\* finite point whose folded sum is exactly N times the point, the mean is
\* that point and the covariance is zero.
C8_GaussianEstimateMeanCov ==
    GaussianEstimateReturned =>
        LET T == ret.T
            ps == EstimatedParticles
            n == Len(ps)
            x == ret.result.value.x
            s1 == SumInt([i \in 1 .. n |-> args.particules[i][1]])
        IN  /\ ret.result.status = "ok"
            /\ x = FDiv(T, Fold(T, FZero, ps), FromUsize(T, n))
            /\ ( /\ self.type = "functions"
                 /\ \A i \in 1 .. n : args.particules[i][2] = 1 ) =>
                   x = FromRat(T, Rat(s1, n))
            /\ ret.result.value.cov
                 = FDiv(T, Fold(T, FZero,
                                [i \in 1 .. n |->
                                   FMul(T, FSub(T, ps[i], x),
                                        FSub(T, ps[i], x))]),
                        FromUsize(T, n))
            /\ ( /\ SamePoint /\ ps[1].k = "num"
                 /\ Fold(T, FZero, ps) = Times(n, ps[1]) ) =>
                 /\ x = ps[1]
                 /\ IsZero(ret.result.value.cov)

\* C8 witness: gaussian_estimate has returned for three particles at the
\* same point, their sum computed without rounding.
C8_Witness ==
    /\ GaussianEstimateReturned
    /\ ret.result.status = "ok"
    /\ ret.particules = Copies(3, FromRat(ret.T, FromInt(2)))
    /\ Fold(ret.T, FZero, EstimatedParticles)
         = Times(3, EstimatedParticles[1])

\* C9: in the selection sweep, for every weight vector and draws in
\* [0, total_weight), the particle emitted for a sorted draw d is the one at
\* the first position whose cumulative weight is not below d; so for a
\* positive draw no particle of weight 0 is emitted.
C9_SweepIsInverseCdf ==
    ( /\ ResamplingReturned(SweepFns \cup {"resample"})
      /\ \A i \in 1 .. Len(ret.draws) :
            /\ ~FLt(ret.draws[i], FZero)
            /\ FLt(ret.draws[i], TotalWeight) ) =>
        LET sorted == SortDraws(ret.draws)
        IN  /\ ret.result.status = "ok"
            /\ \A i \in 1 .. Len(args.particules) :
                  /\ ret.result.value[i] =
                       args.particules[InverseCdf(args.T, sorted[i],
                                                  args.weights)]
                  /\ \A k \in 1 .. Len(args.particules) :
                        ( /\ ret.result.value[i] = args.particules[k]
                          /\ FLt(FZero, sorted[i]) ) =>
                          ~IsZero(args.weights[k])

\* C10: with all weights equal (and positive), stratified and systematic
\* resampling return every input particle exactly once: the output is the
\* input collection, whatever the generator yields.
C10_EqualWeightsReproduceInput ==
    ( /\ ResamplingReturned({"resampling_stratified",
                             "resampling_systematic"})
      /\ ~IsZero(args.weights[1])
      /\ \A i \in 1 .. Len(args.weights) : args.weights[i] = args.weights[1]
    ) =>
        /\ ret.result.status = "ok"
        /\ ret.result.value = args.particules

---------------------------------------------------------------------------
(* The sweep of resample, step by step *)

\* The sorted draws and the (index, cum_weight) of each emission of the
\* sweep that the returned call ran.
SortedDraws == SortDraws(ret.draws)
SweepSteps ==
    SweepOf(args.T, ret.draws, TotalWeight, Len(args.particules),
            args.weights)

\* The (index, cum_weight) before the i-th draw is looked at.
StepBefore(i) ==
    IF i = 1 THEN [index |-> 0, cum_weight |-> SortedDraws[1]]
    ELSE SweepSteps[i - 1]

\* The cumulative weight once the index has moved from StepBefore(i) to k.
Reach(i, k) ==
    Fold(args.T, StepBefore(i).cum_weight,
         SubSeq(args.weights, StepBefore(i).index + 1, k))

\* The accumulated weights never reach the i-th draw.
NeverReached(i) ==
    \A k \in StepBefore(i).index .. Len(args.particules) - 1 :
        FLt(Reach(i, k), SortedDraws[i])

\* C11: the sweep never reads past the particle list: for every non-empty
\* particle list, weight vector of the same length and list of draws, the
\* index is at most N-1 at every emission and the call returns; when the
\* accumulated weights never reach a draw, the index stops at N-1, the
\* cumulative weight is set to total_weight and the last particle is emitted.
\* (On a NaN draw among two or more the sort of the draws panics and no
\* sweep is run.)
C11_SweepStaysInsideList ==
    ResamplingReturned(SweepFns \cup {"resample"}) =>
        IF SortPanics(ret.draws)
        THEN ret.result =
               Panic("called Option::unwrap() on a None value: partial_cmp")
        ELSE /\ ret.result.status = "ok"
             /\ \A i \in 1 .. Len(args.particules) :
                  /\ SweepSteps[i].index \in 0 .. Len(args.particules) - 1
                  /\ NeverReached(i) =>
                       /\ SweepSteps[i].index = Len(args.particules) - 1
                       /\ SweepSteps[i].cum_weight = TotalWeight
                       /\ ret.result.value[i] =
                            args.particules[Len(args.particules)]

\* resample has returned from a sweep in which the accumulated weights
\* never reached a draw, the total weight being positive.
C11_Witness ==
    /\ ResamplingReturned({"resample"})
    /\ FLt(FZero, TotalWeight)
    /\ \E i \in 1 .. Len(args.particules) : NeverReached(i)

---------------------------------------------------------------------------
(* The draws of the three schemes *)

\* x * y without rounding.
Product(x, y) == Exact(x.neg # y.neg, BigMul(x.m, y.m), x.e + y.e)

\* d lies in the stratum [i*total/n, (i+1)*total/n), i counted from 0.
InStratum(d, i, total, n) ==
    /\ ~FLt(Times(n, d), Times(i, total))
    /\ FLt(Times(n, d), Times(i + 1, total))

\* C12: the three schemes differ only in the N draws they hand to resample,
\* and every draw lies in [0, total_weight): the draws of resampling_sort are
\* N values each made of its own generator output; the i-th draw of
\* resampling_stratified lies in [i*total/N, (i+1)*total/N); the draws of
\* resampling_systematic are (i + o)*total/N for one offset o in [0, 1), so
\* that consecutive draws differ by exactly total/N.
C12_DrawsPerScheme ==
    ResamplingReturned(SweepFns) =>
        LET n == Len(args.particules)
            total == TotalWeight
            rng == Floats(args.T, ret.rng)
            d == ret.draws
        IN  /\ Len(d) = n
            /\ ret.result = resample(args.T, d, total, args.particules,
                                     args.weights)
            /\ \A i \in 1 .. n : ~FLt(d[i], FZero) /\ FLt(d[i], total)
            /\ ret.op = "resampling_sort" =>
                  /\ Len(rng) = n
                  /\ \A i \in 1 .. n : d[i] = Product(rng[i], total)
            /\ ret.op = "resampling_stratified" =>
                  \A i \in 1 .. n : InStratum(d[i], i - 1, total, n)
            /\ ret.op = "resampling_systematic" =>
                  /\ Len(rng) = 1
                  /\ ~FLt(rng[1], FZero) /\ FLt(rng[1], FOne)
                  /\ \A i \in 1 .. n :
                        Times(n, d[i]) =
                          Product(FSum(FromUsize(args.T, i - 1), rng[1]),
                                  total)
                  /\ \A i \in 1 .. n - 1 :
                        Times(n, FSum(d[i + 1], FNeg(d[i]))) = total

---------------------------------------------------------------------------
(* Resampling inside update_estimate *)

\* The weights the returned call had when the whole batch was folded in.
BatchWeights ==
    IF self.type = "GeneralParticleFilter"
    THEN Weigh(self.T, Ones(Len(ret.predicted)), ret.predicted,
               Floats(self.T, Unwrap(args.z)))
    ELSE WeighKnown(self.T, Ones(Len(ret.predicted)), ret.predicted,
                    self.landmarks,
                    FilterKnown(self.landmarks, Unwrap(args.measurements)))

\* The output of the scheme named scheme for the outputs rng of the
\* generator written as rationals.
SchemeOutput(T, scheme, rng, particules, weights) ==
    CASE scheme = "IID" ->
            resampling_sort(T, Floats(T, rng), particules, weights)
      [] scheme = "Stratified" ->
            resampling_stratified(T, Floats(T, rng), particules, weights)
      [] scheme = "Systematic" ->
            resampling_systematic(T, FromRat(T, rng[1]), particules, weights)

\* The particles of the filter are the output of res for some outputs of
\* the generator.
ReplacedBy(res) == res.status = "ok" /\ self.particules = res.value

\* C13: every update_estimate call of a particle filter that
\* supplies measurements resamples on that call whatever the weights are:
\* the weights of the whole batch are computed from 1 and the collection is
\* then replaced by the output of the scheme fixed at construction (IID,
\* Stratified or Systematic).
C13_AlwaysResamplesByScheme ==
    (UpdateReturned /\ IsSome(MeasurementsOf(args))) =>
        /\ ret.result.status = "ok"
        /\ ret.resampled
        /\ ret.weights = Some(BatchWeights)
        /\ "resampling_scheme" \in DOMAIN self
        /\ self.resampling_scheme \in Schemes
        /\ \E rng \in RngFor(args.z, self.resampling_scheme,
                              Len(ret.predicted)) :
              ReplacedBy(SchemeOutput(self.T, self.resampling_scheme, rng,
                                      ret.predicted, BatchWeights))

---------------------------------------------------------------------------
(* estimate of the known-correspondence Kalman filter as a function of the *)
(* filter's fields.  new() leaves the private table empty; the loop of     *)
(* estimate is run here on tables that hold entries.                       *)

EstimateKnownFilters ==
    {[type |-> "ExtendedKalmanFilterKnownCorrespondences", T |-> T, R |-> R,
      Q |-> Q, landmarks |-> t] :
        T \in FloatTypes, R \in CovVals \cup {FromInt(49)}, Q \in CovVals,
        t \in LandmarkTables}

InitEstimateKnown ==
    /\ self \in EstimateKnownFilters
    /\ pc = "idle"
    /\ args = NoArgs
    /\ ret = NoRet

NextEstimateKnown ==
    \/ Call
    \/ EstimateKnown
    \/ Return

SpecEstimateKnown == InitEstimateKnown /\ [][NextEstimateKnown]_vars

\* estimate of the known-correspondence Kalman filter has returned (or
\* panicked).
EstimateKnownReturned ==
    /\ pc = "returned"
    /\ self.type = "ExtendedKalmanFilterKnownCorrespondences"
    /\ ret.op = "estimate"

\* The prediction of the call: the motion prediction of x and G P G^T + R.
Predicted ==
    LET T == self.T
        x == FromRat(T, args.estimate.x)
        u == FromRat(T, args.u)
        dt == FromRat(T, args.dt)
        G == MotionJacobianWrtStateT(T, x, u, dt)
    IN  [x |-> MotionPredictionT(T, x, u, dt),
         P |-> FAdd(T, FMul(T, FMul(T, G, FromRat(T, args.estimate.P)), G),
                    FromRat(T, self.R))]

\* The batch entries whose identifier is in the table, in batch order.
KnownEntries ==
    SelectSeq(args.z_vec, LAMBDA m : m.id \in DOMAIN self.landmarks)

\* One correction per entry of known, each at the (x, p) the one before it
\* produced: the innovation covariance s and the corrected (x, P) of each,
\* up to the first whose s has no inverse.
RECURSIVE SequentialCorrections(_, _, _)
SequentialCorrections(x, p, known) ==
    IF known = <<>> THEN <<>>
    ELSE LET T == self.T
             landmark == Some(FromRat(T, self.landmarks[Head(known).id]))
             z == FromRat(T, Head(known).z)
             H == MeasurementJacobianT(T, x, landmark)
             z_pred == MeasurementPredictionT(T, x, landmark)
             s == FAdd(T, FMul(T, FMul(T, H, p), H), FromRat(T, self.Q))
         IN  IF IsZero(s)
             THEN <<[s |-> s, inverted |-> FALSE, x |-> x, P |-> p]>>
             ELSE LET k == FMul(T, FMul(T, p, H), FDiv(T, FOne, s))
                      x2 == FAdd(T, x, FMul(T, k, FSub(T, z, z_pred)))
                      p2 == FMul(T, FSub(T, FOne, FMul(T, k, H)), p)
                  IN  <<[s |-> s, inverted |-> TRUE, x |-> x2, P |-> p2]>>
                      \o SequentialCorrections(x2, p2, Tail(known))

\* C14: after one prediction the known-correspondence Kalman filter applies
\* exactly one correction per batch entry whose identifier is in the table,
\* in batch order, each at the estimate and covariance the correction before
\* it produced (the first at the prediction); entries whose identifier is
\* not in the table apply no correction.  A correction whose innovation
\* covariance has no inverse ends the call in a panic.
C14_SequentialCorrections ==
    EstimateKnownReturned =>
        LET c == SequentialCorrections(Predicted.x, Predicted.P, KnownEntries)
        IN  /\ ret.innovations = [k \in 1 .. Len(c) |-> c[k].s]
            /\ IF \E k \in 1 .. Len(c) : ~c[k].inverted
               THEN ret.result.status = "panic"
               ELSE /\ Len(c) = Len(KnownEntries)
                    /\ ret.result.status = "ok"
                    /\ ret.result.value =
                         IF c = <<>> THEN Predicted
                         ELSE [x |-> c[Len(c)].x, P |-> c[Len(c)].P]

\* estimate has returned from a batch with two entries whose identifier is
\* in the table, the second correction having changed the estimate and the
\* covariance the first produced.
C14_Witness ==
    /\ EstimateKnownReturned
    /\ ret.result.status = "ok"
    /\ Len(KnownEntries) >= 2
    /\ LET c == SequentialCorrections(Predicted.x, Predicted.P, KnownEntries)
       IN  c[2].x # c[1].x /\ c[2].P # c[1].P /\ c[1].P # Predicted.P

\* C15: the landmark table of ExtendedKalmanFilterKnownCorrespondences is
\* empty in every reachable state, so that for every prior estimate, control
\* and batch, estimate applies no correction and returns exactly the
\* prediction (the motion prediction of x, and G P G^T + R).
C15_LandmarkTableAlwaysEmpty ==
    /\ self.type = "ExtendedKalmanFilterKnownCorrespondences" =>
          DOMAIN self.landmarks = {}
    /\ EstimateKnownReturned =>
          /\ ret.innovations = <<>>
          /\ ret.result.status = "ok"
          /\ ret.result.value = Predicted

\* estimate has returned the prediction for a batch of measurements, the
\* prior covariance and R being positive.
C15_Witness ==
    /\ EstimateKnownReturned
    /\ Len(args.z_vec) >= 1
    /\ args.estimate.P # Zero /\ self.R # Zero
    /\ ret.result.status = "ok"
    /\ ret.result.value = Predicted
    /\ ret.result.value.P = FAdd(self.T, FromRat(self.T, args.estimate.P),
                                 FromRat(self.T, self.R))

=============================================================================
